---- MODULE Spec2Model ----
(***************************************************************************)
(* Model of datascribe/utils.py: the selection of a statistical test for   *)
(* two columns of tabular data (is_categorical, test_variances_equality,   *)
(* create_contingency_table, test_marginal_sums, compare_columns) and the  *)
(* batch comparison of the columns two data frames share                   *)
(* (compare_common_columns).                                               *)
(*                                                                         *)
(* The functions are pure.  A behaviour draws the arguments in Init and    *)
(* then applies one of the functions to them; the call's outcome (a        *)
(* returned value or a raised exception) is kept in `ret`, and the scipy   *)
(* tests the call ran are kept, in order, in `ran`.                        *)
(*                                                                         *)
(* Python values whose exact kind matters are kept as the code produces    *)
(* them: a truth value is a bool or an int, so that `~` and `or` act as    *)
(* they do in Python, and a float is a finite fraction, inf or nan, so     *)
(* that numpy's division by zero is a value, not an exception.             *)
(* The p-value a scipy test computes is not evaluated: a result carries    *)
(* the scipy call that produced it (`stat`) and the flag it was given.     *)
(***************************************************************************)
EXTENDS Integers, Sequences, FiniteSets, TLC

VARIABLES
    pc,          \* position: "start", then the name of the call that ended
    sample_a,    \* first column  [dtype, values]
    sample_b,    \* second column [dtype, values]
    threshold,   \* the threshold argument of the call, 0 before the call
    table,       \* the contingency table handed to test_marginal_sums
    ret,         \* outcome of the call: [kind |-> "return"/"raise", ...]
    ran,         \* sequence of the scipy tests the call ran
    df_a,        \* first data frame: column name -> column
    df_b,        \* second data frame
    shared_cols, \* compare_common_columns: the columns of both frames
    remaining,   \* compare_common_columns: the columns the loop has not visited
    tests_results \* compare_common_columns: the report being filled

vars == <<pc, sample_a, sample_b, threshold, table, ret, ran,
          df_a, df_b, shared_cols, remaining, tests_results>>

----------------------------------------------------------------------------
(* Bounds of the model and constants of the program *)

\* longest sequence enumerated value by value
MaxLen == 2

\* thresholds 1..MaxSmallThreshold are tried besides the default
MaxSmallThreshold == 1

\* threshold=5, categorical_threshold=5: the default of every threshold
DefaultThreshold == 5

\* the modalities a column may hold
Values == {1, 2, 3}

DTypes == {"number", "object"}

Thresholds == (1..MaxSmallThreshold) \cup {DefaultThreshold}

\* s repeated k times, as np.tile(s, k)
Tile(s, k) == [i \in 1..(Len(s) * k) |-> s[((i - 1) % Len(s)) + 1]]

BaseSeqs == UNION {[1..n -> Values] : n \in 0..MaxLen}

\* repetitions that put the expected frequencies below, at and above the
\* default threshold
Reps == {1, DefaultThreshold, DefaultThreshold + 1}

\* the two columns of five observations that section 8 of the specification
\* tabulates (a = 1, b = 2)
ExampleSeqs == {<<1, 1, 2, 2, 2>>, <<1, 2, 2, 2, 2>>}

SampleValues == {Tile(s, k) : s \in BaseSeqs, k \in Reps} \cup ExampleSeqs

Samples == [dtype : DTypes, values : SampleValues]

----------------------------------------------------------------------------
(* Python and numpy values *)

PyBool(b) == [type |-> "bool", int |-> IF b THEN 1 ELSE 0]

\* operator ~ on a Python bool or int: -x - 1, an int
Invert(x) == [type |-> "int", int |-> (0 - x.int) - 1]

\* truth value testing: zero is false, every other number is true
Truthy(x) == x.int # 0

\* x or y: x when x is truthy, else y
PyOr(x, y) == IF Truthy(x) THEN x ELSE y

NaN == [kind |-> "nan", num |-> 0, den |-> 1]

Inf == [kind |-> "inf", num |-> 0, den |-> 1]

\* greatest common divisor of two naturals, not both zero
Gcd(a, b) ==
    LET RECURSIVE gcd(_, _)
        gcd(x, y) == IF y = 0 THEN x ELSE gcd(y, x % y)
    IN  gcd(a, b)

\* the finite float n/d (d > 0), kept in lowest terms
Fin(n, d) ==
    LET g == Gcd(n, d)
    IN  [kind |-> "fin", num |-> n \div g, den |-> d \div g]

Return(v) == [kind |-> "return", value |-> v]

\* a raised exception: its class, its message and the values formatted into it
Raise(e, m, args) == [kind |-> "raise", error |-> e, msg |-> m, args |-> args]

NoRet == [kind |-> "none"]

Range(s) == {s[i] : i \in DOMAIN s}

\* pandas.Series.nunique, numpy.unique: the number of distinct values
nunique(series) == Cardinality(Range(series.values))

\* np.issubdtype(series.dtype, np.number): a Python bool
issubdtype_number(series) == PyBool(series.dtype = "number")

----------------------------------------------------------------------------
(* is_categorical *)

is_categorical(series, t) ==
    PyOr(PyBool(nunique(series) <= t), Invert(issubdtype_number(series)))

----------------------------------------------------------------------------
(* test_variances_equality *)

\* the sum of the elements of a sequence, left to right
SumSeq(values) ==
    LET acc[i \in 0..Len(values)] ==
            IF i = 0 THEN 0 ELSE acc[i - 1] + values[i]
    IN  acc[Len(values)]

\* the sum of the squares of the elements
SumSquares(values) == SumSeq([i \in DOMAIN values |-> values[i] * values[i]])

\* np.var: the population variance mean(x^2) - mean(x)^2, nan (with a
\* RuntimeWarning, no exception) for an empty input
np_var(sample) ==
    LET n == Len(sample.values)
    IN  IF n = 0 THEN NaN
        ELSE Fin(n * SumSquares(sample.values)
                   - SumSeq(sample.values) * SumSeq(sample.values), n * n)

\* the same division done on Python floats: a zero divisor raises
PyFloatDiv(x, y) ==
    IF x.kind = "raise" \/ y.kind = "raise" \/ (y.kind = "fin" /\ y.num = 0)
    THEN [kind |-> "raise", num |-> 0, den |-> 1]
    ELSE IF x.kind = "nan" \/ y.kind = "nan" THEN NaN
    ELSE IF y.kind = "inf" THEN (IF x.kind = "inf" THEN NaN ELSE Fin(0, 1))
    ELSE IF x.kind = "inf" THEN Inf
    ELSE Fin(x.num * y.den, x.den * y.num)

\* x / y on numpy float64 scalars, both >= 0: a zero divisor gives inf or
\* nan with a RuntimeWarning, never an exception (lines 68 and 69)
FDiv(x, y) ==
    IF x.kind = "nan" \/ y.kind = "nan" THEN NaN
    ELSE IF y.kind = "inf" THEN (IF x.kind = "inf" THEN NaN ELSE Fin(0, 1))
    ELSE IF x.kind = "inf" THEN Inf
    ELSE IF y.num = 0 THEN (IF x.num = 0 THEN NaN ELSE Inf)
    ELSE Fin(x.num * y.den, x.den * y.num)

\* x < y on floats >= 0: every comparison with nan is false
FLess(x, y) ==
    IF x.kind = "fin" /\ y.kind = "fin" THEN x.num * y.den < y.num * x.den
    ELSE x.kind = "fin" /\ y.kind = "inf"

\* builtin max(x, y): y when y > x, else x
PyMax(x, y) == IF FLess(x, y) THEN y ELSE x

\* f.ppf(alpha/2, dfn, dfd): the lower alpha/2 quantile of the F distribution.
\* nan when a degree of freedom is not positive; otherwise a finite value
\* that is not computed here.  The lower 2.5% point of every F distribution
\* lies strictly between 0 and 1, so the call may give any of these.
f_ppf(dfn, dfd) ==
    IF dfn <= 0 \/ dfd <= 0 THEN {NaN} ELSE {Fin(1, 10), Fin(1, 2)}

\* the critical values line 70 may read for these two samples
Criticals(a, b) == f_ppf(Len(a.values) - 1, Len(b.values) - 2)

\* crit is the value of f.ppf(alpha/2, len(sample_a)-1, len(sample_b)-2)
test_variances_equality(a, b, crit) ==
    LET variance_ratio == FDiv(np_var(a), np_var(b))
        inverse == FDiv(Fin(1, 1), variance_ratio)
        larger == PyMax(variance_ratio, inverse)
    IN  IF variance_ratio.kind = "raise" \/ inverse.kind = "raise"
        THEN Raise("ZeroDivisionError", "float division by zero", << >>)
        ELSE Return(FLess(larger, crit))

----------------------------------------------------------------------------
(* create_contingency_table and test_marginal_sums *)

\* pd.Series(sample).value_counts().sort_index(): one pass over the values,
\* counting each under its modality
value_counts(values) ==
    LET idx == Range(values)
        cnt[i \in 0..Len(values)] ==
            IF i = 0 THEN [m \in idx |-> 0]
            ELSE [cnt[i - 1] EXCEPT ![values[i]] = @ + 1]
    IN  cnt[Len(values)]

\* the cell pd.concat leaves where a modality is absent from one column (NaN)
Missing == -1

\* pd.concat([...], join='inner'): only the rows both indexes hold
concat_inner(counts_a, counts_b) ==
    [m \in (DOMAIN counts_a) \cap (DOMAIN counts_b) |->
        <<counts_a[m], counts_b[m]>>]

\* pd.concat([counts_a, counts_b], axis=1): outer join on the index
concat(counts_a, counts_b) ==
    [m \in (DOMAIN counts_a) \cup (DOMAIN counts_b) |->
        <<IF m \in DOMAIN counts_a THEN counts_a[m] ELSE Missing,
          IF m \in DOMAIN counts_b THEN counts_b[m] ELSE Missing>>]

\* DataFrame.fillna(0.)
fillna(frame, v) ==
    [m \in DOMAIN frame |->
        <<IF frame[m][1] = Missing THEN v ELSE frame[m][1],
          IF frame[m][2] = Missing THEN v ELSE frame[m][2]>>]

\* line 77 with the test `== 0` dropped: never raises
create_contingency_table_unchecked(a, b) ==
    Return(fillna(concat(value_counts(a.values), value_counts(b.values)), 0))

create_contingency_table(a, b) ==
    LET counts_a == value_counts(a.values)
        counts_b == value_counts(b.values)
    IN  IF Cardinality((DOMAIN counts_a) \cap (DOMAIN counts_b)) = 0
        THEN Raise("ValueError", "The two columns contain different modalities", << >>)
        ELSE Return(fillna(concat(counts_a, counts_b), 0))

\* the sum of column j of a table
column_sum(tbl, j) ==
    LET RECURSIVE sum(_)
        sum(T) == IF T = {} THEN 0
                  ELSE LET x == CHOOSE y \in T : TRUE
                       IN  tbl[x][j] + sum(T \ {x})
    IN  sum(DOMAIN tbl)

\* scipy.stats.contingency.expected_freq: for each cell the product of its
\* row sum and column sum, divided by the grand total
expected_freq(tbl) ==
    LET col == <<column_sum(tbl, 1), column_sum(tbl, 2)>>
        total == col[1] + col[2]
    IN  [m \in DOMAIN tbl |->
            [j \in 1..2 |->
                FDiv(Fin((tbl[m][1] + tbl[m][2]) * col[j], 1), Fin(total, 1))]]

\* np.greater_equal(x, t)
np_greater_equal(x, t) ==
    \/ x.kind = "inf"
    \/ x.kind = "fin" /\ x.num >= t * x.den

\* np.greater(x, t) for a float x and an integer t
np_greater(x, t) ==
    \/ x.kind = "inf"
    \/ x.kind = "fin" /\ x.num > t * x.den

test_marginal_sums(tbl, t) ==
    LET expected_frequencies == expected_freq(tbl)
    IN  \A m \in DOMAIN tbl : \A j \in 1..2 :
            np_greater(expected_frequencies[m][j], t)

----------------------------------------------------------------------------
(* compare_columns *)

\* what a call gives back: its outcome and the scipy tests it ran
Outcome(r, tests) == [ret |-> r, ran |-> tests]

\* one scipy test: the function, the argument that selects its variant and
\* the data it is given
Stat(fn, arg, data) == [fn |-> fn, arg |-> arg, data |-> data]

\* a test result: the test's name and the p-value, kept as the scipy call
\* that computes it
Result(test, stat) == [test |-> test, p_value |-> stat]

\* lines 103 to 112 with shape[1] read for shape[0]: the table always has
\* two columns
categorical_test_by_columns(contingency_table) ==
    IF test_marginal_sums(contingency_table, DefaultThreshold)
    THEN LET st == Stat("chi2_contingency", "correction=False", contingency_table)
         IN  Outcome(Return(Result("chi2", st)), <<st>>)
    ELSE LET st == Stat("fisher_exact", "", contingency_table)
         IN  Outcome(Return(Result("fisher_exact", st)), <<st>>)

\* lines 103 to 112: the test run on a contingency table
categorical_test(contingency_table) ==
    IF test_marginal_sums(contingency_table, DefaultThreshold)
    THEN LET st == Stat("chi2_contingency", "correction=False", contingency_table)
         IN  Outcome(Return(Result("chi2", st)), <<st>>)
    ELSE IF Cardinality(DOMAIN contingency_table) = 2
    THEN LET st == Stat("fisher_exact", "", contingency_table)
         IN  Outcome(Return(Result("fisher_exact", st)), <<st>>)
    ELSE LET st == Stat("chi2_contingency", "correction=True", contingency_table)
         IN  Outcome(Return(Result("chi2", st)), <<st>>)

\* lines 114 to 116: ttest_ind(sample_a, sample_b, <equality>): the third
\* positional parameter of ttest_ind is axis, and the samples have one axis
numerical_test(a, b, crit) ==
    LET equal == test_variances_equality(a, b, crit)
    IN  IF equal.kind = "raise" THEN Outcome(equal, << >>)
        ELSE IF equal.value
        THEN Outcome(Raise("AxisError", "axis 1 is out of bounds", << >>), << >>)
        ELSE LET st == Stat("ttest_ind", "axis=False", <<a.values, b.values>>)
             IN  Outcome(Return(Result("student", st)), <<st>>)

\* the message of lines 97 and 98
MismatchMessage ==
    "Cannot determine if input columns are categorical or numerical"

compare_columns(a, b, categorical_threshold, crit) ==
    IF Truthy(is_categorical(a, categorical_threshold))
    THEN IF ~Truthy(is_categorical(b, categorical_threshold))
         THEN Outcome(Raise("ValueError", MismatchMessage,
                            <<nunique(a), nunique(b)>>), << >>)
         ELSE LET made == create_contingency_table(a, b)
              IN  IF made.kind = "raise" THEN Outcome(made, << >>)
                  ELSE categorical_test(made.value)
    ELSE numerical_test(a, b, crit)

----------------------------------------------------------------------------
(* The calls on two columns *)

NoSample == [dtype |-> "object", values |-> << >>]

Init ==
    /\ pc = "start"
    /\ sample_a \in Samples
    /\ sample_b \in Samples
    /\ threshold = 0
    /\ table = << >>
    /\ ret = NoRet
    /\ ran = << >>
    /\ df_a = << >>
    /\ df_b = << >>
    /\ shared_cols = {}
    /\ remaining = {}
    /\ tests_results = << >>

\* is_categorical(sample_a, t)
IsCategorical ==
    /\ pc = "start"
    /\ pc' = "is_categorical"
    /\ \E t \in Thresholds :
           /\ threshold' = t
           /\ ret' = Return(is_categorical(sample_a, t))
    /\ UNCHANGED <<sample_a, sample_b, table, ran,
                   df_a, df_b, shared_cols, remaining, tests_results>>

\* test_variances_equality(sample_a, sample_b)
TestVariancesEquality ==
    /\ pc = "start"
    /\ pc' = "test_variances_equality"
    /\ \E crit \in Criticals(sample_a, sample_b) :
           ret' = test_variances_equality(sample_a, sample_b, crit)
    /\ UNCHANGED <<sample_a, sample_b, threshold, table, ran,
                   df_a, df_b, shared_cols, remaining, tests_results>>

\* create_contingency_table(sample_a, sample_b)
CreateContingencyTable ==
    /\ pc = "start"
    /\ pc' = "create_contingency_table"
    /\ ret' = create_contingency_table(sample_a, sample_b)
    /\ table' = IF ret'.kind = "return" THEN ret'.value ELSE table
    /\ UNCHANGED <<sample_a, sample_b, threshold, ran,
                   df_a, df_b, shared_cols, remaining, tests_results>>

\* test_marginal_sums(table, t) on a table the call above returned
TestMarginalSums ==
    /\ pc = "create_contingency_table"
    /\ ret.kind = "return"
    /\ pc' = "test_marginal_sums"
    /\ \E t \in Thresholds :
           /\ threshold' = t
           /\ ret' = Return(test_marginal_sums(table, t))
    /\ UNCHANGED <<sample_a, sample_b, table, ran,
                   df_a, df_b, shared_cols, remaining, tests_results>>

\* compare_columns(sample_a, sample_b, t)
CompareColumns ==
    /\ pc = "start"
    /\ pc' = "compare_columns"
    /\ \E t \in Thresholds, crit \in Criticals(sample_a, sample_b) :
           LET out == compare_columns(sample_a, sample_b, t, crit)
           IN  /\ threshold' = t
               /\ ret' = out.ret
               /\ ran' = out.ran
    /\ UNCHANGED <<sample_a, sample_b, table,
                   df_a, df_b, shared_cols, remaining, tests_results>>

Next ==
    \/ IsCategorical
    \/ TestVariancesEquality
    \/ CreateContingencyTable
    \/ TestMarginalSums
    \/ CompareColumns

Spec == Init /\ [][Next]_vars

----------------------------------------------------------------------------
(* compare_common_columns *)

\* the most rows a data frame holds
MaxRows == 1

\* the column names of the frames the module's own example builds
Columns == {"bin", "cat", "num"}

\* in that example bin and cat hold labels and num holds integers
ColumnDType(c) == IF c = "num" THEN "number" ELSE "object"

\* the modalities a frame's column may hold
FrameValues == {1, 2}

\* the data frames: any of the columns, all of one length
DataFrames ==
    UNION {UNION {{[c \in S |-> [dtype |-> ColumnDType(c), values |-> f[c]]] :
                      f \in [S -> [1..n -> FrameValues]]} :
                  S \in SUBSET Columns} :
           n \in 1..MaxRows}

\* line 123
shared_columns(a, b) == (DOMAIN a) \cap (DOMAIN b)

\* a cell no result was assigned to
NaNCell == Result("NaN", Stat("NaN", "", << >>))

\* lines 124 and 125: a frame of NaN with one column per shared name
empty_frame(cols) == [c \in cols |-> NaNCell]

\* an assignment made on a copy of the frame: the frame keeps its NaN
setitem_on_copy(frame, col, value) == frame

\* tests_results[col] = value
setitem(frame, col, value) == [frame EXCEPT ![col] = value]

\* the loop body with the exception caught and recorded in the column's place
column_step_continue(frame, col, out) ==
    [raised |-> FALSE, ret |-> NoRet,
     frame |-> setitem(frame, col,
                       IF out.ret.kind = "raise" THEN out.ret ELSE out.ret.value)]

\* lines 127 and 128 for one column, out being what compare_columns gave: an
\* exception leaves the loop and the function, a result is assigned
column_step(frame, col, out) ==
    IF out.ret.kind = "raise"
    THEN [raised |-> TRUE, ret |-> out.ret, frame |-> frame]
    ELSE [raised |-> FALSE, ret |-> NoRet,
          frame |-> setitem(frame, col, out.ret.value)]

InitBatch ==
    /\ pc = "start"
    /\ sample_a = NoSample
    /\ sample_b = NoSample
    /\ threshold = 0
    /\ table = << >>
    /\ ret = NoRet
    /\ ran = << >>
    /\ df_a \in DataFrames
    /\ df_b \in DataFrames
    /\ shared_cols = {}
    /\ remaining = {}
    /\ tests_results = << >>

\* compare_common_columns(df_a, df_b, t) up to the loop: lines 123 to 125
CompareCommonColumnsCall ==
    /\ pc = "start"
    /\ pc' = "loop"
    /\ \E t \in Thresholds : threshold' = t
    /\ shared_cols' = shared_columns(df_a, df_b)
    /\ remaining' = shared_cols'
    /\ tests_results' = empty_frame(shared_cols')
    /\ UNCHANGED <<sample_a, sample_b, table, ret, ran, df_a, df_b>>

\* one turn of the loop of line 126, on any column not yet visited: a set is
\* iterated in no order the program chooses
CompareCommonColumnsLoop ==
    /\ pc = "loop"
    /\ \E col \in remaining :
         \E crit \in Criticals(df_a[col], df_b[col]) :
           LET out == compare_columns(df_a[col], df_b[col], threshold, crit)
               step == column_step(tests_results, col, out)
           IN  /\ ran' = ran \o out.ran
               /\ tests_results' = step.frame
               /\ IF step.raised
                  THEN /\ pc' = "compare_common_columns"
                       /\ ret' = step.ret
                       /\ UNCHANGED remaining
                  ELSE /\ remaining' = remaining \ {col}
                       /\ UNCHANGED <<pc, ret>>
    /\ UNCHANGED <<sample_a, sample_b, threshold, table, df_a, df_b, shared_cols>>

\* line 129, once the loop has visited every shared column
CompareCommonColumnsReturn ==
    /\ pc = "loop"
    /\ remaining = {}
    /\ pc' = "compare_common_columns"
    /\ ret' = Return(tests_results)
    /\ UNCHANGED <<sample_a, sample_b, threshold, table, ran,
                   df_a, df_b, shared_cols, remaining, tests_results>>

NextBatch ==
    \/ CompareCommonColumnsCall
    \/ CompareCommonColumnsLoop
    \/ CompareCommonColumnsReturn

SpecBatch == InitBatch /\ [][NextBatch]_vars

----------------------------------------------------------------------------
(* What the claims speak of, stated on the arguments alone *)

\* the number of occurrences of m in a column
Count(m, sample) ==
    Cardinality({i \in DOMAIN sample.values : sample.values[i] = m})

Modalities(sample) == {sample.values[i] : i \in DOMAIN sample.values}

\* categorical as the specification defines it: few distinct values, or a
\* value type that is not numeric
SpecCategorical(sample, t) ==
    Cardinality(Modalities(sample)) <= t \/ sample.dtype # "number"

\* numerical: numeric-typed with more than t distinct values
SpecNumerical(sample, t) ==
    sample.dtype = "number" /\ Cardinality(Modalities(sample)) > t

Disjoint(a, b) == Modalities(a) \cap Modalities(b) = {}

\* every expected frequency (row sum * column sum / grand total) of the
\* table of a and b is strictly greater than t
ExpectedAllAbove(a, b, t) ==
    \A m \in Modalities(a) \cup Modalities(b) :
        \A n \in {Len(a.values), Len(b.values)} :
            (Count(m, a) + Count(m, b)) * n > t * (Len(a.values) + Len(b.values))

\* some expected frequency equals t exactly
ExpectedSomeEqual(a, b, t) ==
    \E m \in Modalities(a) \cup Modalities(b) :
        \E n \in {Len(a.values), Len(b.values)} :
            (Count(m, a) + Count(m, b)) * n = t * (Len(a.values) + Len(b.values))

NumberOfRows(a, b) == Cardinality(Modalities(a) \cup Modalities(b))

\* zero-length, or of zero variance: all the values are the same
Degenerate(sample) == Cardinality(Modalities(sample)) <= 1

----------------------------------------------------------------------------
(* Claims *)

\* C1: is_categorical(sample, threshold) returns true exactly when the number
\* of distinct values is <= threshold or the value type is not numeric; in
\* particular it returns false for a numeric sample with more than threshold
\* distinct values.
C1_IsCategoricalExact ==
    pc = "is_categorical" =>
        (Truthy(ret.value) <=> SpecCategorical(sample_a, threshold))

\* C2: compare_columns returns "student" whenever both samples are
\* numeric-typed with more than categorical_threshold distinct values: the
\* numerical branch is taken, the t-test is the one test run and no
\* contingency table is built.
C2_NumericalPairGivesStudent ==
    (/\ pc = "compare_columns"
     /\ SpecNumerical(sample_a, threshold)
     /\ SpecNumerical(sample_b, threshold))
    => (/\ ret.kind = "return"
        /\ ret.value.test = "student"
        /\ Len(ran) = 1
        /\ ran[1].fn = "ttest_ind")

\* C3: compare_columns fails with the classification-mismatch ValueError, and
\* returns no result, whenever sample_a is categorical and sample_b is
\* numerical.
C3_MismatchRaises ==
    (/\ pc = "compare_columns"
     /\ SpecCategorical(sample_a, threshold)
     /\ SpecNumerical(sample_b, threshold))
    => (/\ ret.kind = "raise"
        /\ ret.error = "ValueError"
        /\ ret.msg = MismatchMessage
        /\ ran = << >>)

\* C4: for two samples sharing a modality, create_contingency_table returns a
\* table whose rows are exactly the union of the distinct values of both
\* samples, whose cell (m, A) is the number of occurrences of m in sample_a
\* and cell (m, B) the number in sample_b (0 when absent), so every cell is
\* >= 0 and each column sums to the length of its sample.
C4_ContingencyTableCounts ==
    (pc = "create_contingency_table" /\ ~Disjoint(sample_a, sample_b))
    => (/\ ret.kind = "return"
        /\ DOMAIN ret.value = Modalities(sample_a) \cup Modalities(sample_b)
        /\ \A m \in DOMAIN ret.value :
               /\ ret.value[m] = <<Count(m, sample_a), Count(m, sample_b)>>
               /\ ret.value[m][1] >= 0
               /\ ret.value[m][2] >= 0
        /\ column_sum(ret.value, 1) = Len(sample_a.values)
        /\ column_sum(ret.value, 2) = Len(sample_b.values))

\* C4 witness: the table built from [a,a,b,b,b] and [a,b,b,b,b] has the rows
\* a = [2,1] and b = [3,4].
C4_Witness ==
    /\ pc = "create_contingency_table"
    /\ sample_a.values = <<1, 1, 2, 2, 2>>
    /\ sample_b.values = <<1, 2, 2, 2, 2>>
    /\ ret.kind = "return"
    /\ ret.value = (1 :> <<2, 1>> @@ 2 :> <<3, 4>>)

\* C5: create_contingency_table fails with the no-shared-modality ValueError
\* exactly when the two samples' sets of distinct values are disjoint, and
\* compare_columns on two categorical samples with disjoint modalities
\* propagates that error, running no test and returning no result.
C5_DisjointModalitiesRaise ==
    /\ pc = "create_contingency_table" =>
           /\ ret.kind = "raise" <=> Disjoint(sample_a, sample_b)
           /\ ret.kind = "raise" =>
                  /\ ret.error = "ValueError"
                  /\ ret.msg = "The two columns contain different modalities"
    /\ (/\ pc = "compare_columns"
        /\ SpecCategorical(sample_a, threshold)
        /\ SpecCategorical(sample_b, threshold)
        /\ Disjoint(sample_a, sample_b))
       => (/\ ret = Raise("ValueError", "The two columns contain different modalities", << >>)
           /\ ran = << >>)

\* C5 witness: compare_columns raised on two non-empty categorical samples
\* with disjoint modalities.
C5_Witness ==
    /\ pc = "compare_columns"
    /\ sample_a.values # << >>
    /\ sample_b.values # << >>
    /\ SpecCategorical(sample_a, threshold)
    /\ SpecCategorical(sample_b, threshold)
    /\ Disjoint(sample_a, sample_b)
    /\ ret.kind = "raise"

\* C5 witness of the other direction: one shared value among others is
\* enough for create_contingency_table to succeed.
C5_PartialOverlapReached ==
    /\ pc = "create_contingency_table"
    /\ Cardinality(Modalities(sample_a) \cap Modalities(sample_b)) = 1
    /\ NumberOfRows(sample_a, sample_b) = 3
    /\ ret.kind = "return"

\* C6: in the categorical branch of compare_columns exactly one test is run,
\* chosen from the contingency table alone: chi-square without continuity
\* correction ("chi2") if every expected frequency exceeds 5; otherwise
\* Fisher's exact test ("fisher_exact") if the table has exactly 2 rows, and
\* chi-square with continuity correction ("chi2") if it has not.  So
\* "fisher_exact" is returned if and only if some expected frequency is <= 5
\* and the table has exactly 2 rows.
C6_CategoricalTestChoice ==
    (/\ pc = "compare_columns"
     /\ SpecCategorical(sample_a, threshold)
     /\ SpecCategorical(sample_b, threshold)
     /\ ~Disjoint(sample_a, sample_b))
    => LET valid == ExpectedAllAbove(sample_a, sample_b, DefaultThreshold)
           rows == NumberOfRows(sample_a, sample_b)
       IN  /\ ret.kind = "return"
           /\ Len(ran) = 1
           /\ ret.value.p_value = ran[1]
           /\ valid =>
                  /\ ret.value.test = "chi2"
                  /\ ran[1].fn = "chi2_contingency"
                  /\ ran[1].arg = "correction=False"
           /\ (~valid /\ rows = 2) =>
                  /\ ret.value.test = "fisher_exact"
                  /\ ran[1].fn = "fisher_exact"
           /\ (~valid /\ rows # 2) =>
                  /\ ret.value.test = "chi2"
                  /\ ran[1].fn = "chi2_contingency"
                  /\ ran[1].arg = "correction=True"
           /\ ret.value.test = "fisher_exact" <=> (~valid /\ rows = 2)

\* C6 witness: Fisher's exact test was chosen for a 2-row table with an
\* expected frequency of exactly 5.
C6_Witness ==
    /\ pc = "compare_columns"
    /\ NumberOfRows(sample_a, sample_b) = 2
    /\ ExpectedSomeEqual(sample_a, sample_b, DefaultThreshold)
    /\ ret.kind = "return"
    /\ ret.value.test = "fisher_exact"

\* C8: test_variances_equality fails with a computation error (it returns no
\* boolean) whenever a sample is zero-length or has zero variance.
C8_DegenerateVarianceRaises ==
    (/\ pc = "test_variances_equality"
     /\ (Degenerate(sample_a) \/ Degenerate(sample_b)))
    => ret.kind = "raise"

\* C8, amended: test_variances_equality raises no error when a sample is
\* zero-length or has zero variance: the divisions give inf or nan and the
\* function returns False.
C8_DegenerateVarianceReturnsFalse ==
    (/\ pc = "test_variances_equality"
     /\ (Degenerate(sample_a) \/ Degenerate(sample_b)))
    => ret = Return(FALSE)

\* C8 witness: the call returned False for a sample of several observations
\* that has zero variance, beside a sample that varies.
C8_Witness ==
    /\ pc = "test_variances_equality"
    /\ ~Degenerate(sample_a)
    /\ Len(sample_b.values) > 2
    /\ Degenerate(sample_b)
    /\ ret = Return(FALSE)

\* C9: test_marginal_sums(table, threshold) returns true if and only if every
\* cell's expected frequency, row_sum * column_sum / grand_total, is strictly
\* greater than threshold; one cell whose expected frequency equals the
\* threshold (or is below it) makes the result false.
C9_MarginalSumsStrict ==
    pc = "test_marginal_sums" =>
        /\ ret.kind = "return"
        /\ ret.value <=> ExpectedAllAbove(sample_a, sample_b, threshold)

\* C9 witness: the result is false for a table whose smallest expected
\* frequency equals the default threshold exactly.
C9_Witness ==
    /\ pc = "test_marginal_sums"
    /\ threshold = DefaultThreshold
    /\ ExpectedSomeEqual(sample_a, sample_b, threshold)
    /\ \A m \in DOMAIN table : \A j \in 1..2 :
           np_greater_equal(expected_freq(table)[m][j], threshold)
    /\ ret = Return(FALSE)

\* the columns of both frames whose comparison raises
FailingColumns ==
    {c \in (DOMAIN df_a) \cap (DOMAIN df_b) :
        \A crit \in Criticals(df_a[c], df_b[c]) :
            compare_columns(df_a[c], df_b[c], threshold, crit).ret.kind = "raise"}

\* C7: on success compare_common_columns(dataset_a, dataset_b, t) returns a
\* report whose key set is exactly the intersection of the two datasets'
\* column names, and whose entry for each shared column c is the (test name,
\* p-value) pair compare_columns(dataset_a[c], dataset_b[c], t) returns, with
\* a test name among "chi2", "fisher_exact" and "student".
C7_ReportCoversSharedColumns ==
    (pc = "compare_common_columns" /\ ret.kind = "return")
    => /\ DOMAIN ret.value = (DOMAIN df_a) \cap (DOMAIN df_b)
       /\ \A c \in DOMAIN ret.value :
              /\ \E crit \in Criticals(df_a[c], df_b[c]) :
                     LET r == compare_columns(df_a[c], df_b[c], threshold, crit).ret
                     IN  r.kind = "return" /\ ret.value[c] = r.value
              /\ ret.value[c].test \in {"chi2", "fisher_exact", "student"}

\* C7 witness: a report of two columns was returned for frames of which one
\* holds a column the other lacks.
C7_Witness ==
    /\ pc = "compare_common_columns"
    /\ ret.kind = "return"
    /\ Cardinality(DOMAIN ret.value) = 2
    /\ DOMAIN df_a # DOMAIN df_b

\* C10: if compare_columns fails for any shared column,
\* compare_common_columns propagates that error and returns no report, not
\* even for the columns already compared; and whether the call ends in a
\* report or in an error does not depend on the order in which the shared
\* columns are iterated.
C10_BatchAbortsOnAnyFailure ==
    pc = "compare_common_columns" =>
        /\ ret.kind \in {"return", "raise"}
        /\ ret.kind = "raise" <=> FailingColumns # {}
        /\ ret.kind = "raise" =>
               \E c \in FailingColumns :
                   \E crit \in Criticals(df_a[c], df_b[c]) :
                       ret = compare_columns(df_a[c], df_b[c], threshold, crit).ret

\* C10 witness: the call ended in the error of one column after another
\* column had been compared and assigned, with a third not yet visited.
C10_Witness ==
    /\ pc = "compare_common_columns"
    /\ ret.kind = "raise"
    /\ Cardinality(shared_cols) = 3
    /\ Cardinality(remaining) = 2
    /\ Cardinality(FailingColumns) = 1

====
